---- MODULE Spec2Model ----
(***************************************************************************)
(* A model of rundmcmc/partition.py: the Partition class of a Markov chain *)
(* over partitions of a graph.  The state is the heap of Partition objects *)
(* built so far (a root and the objects derived from it by merge), the     *)
(* updater registry they share, the number of times each updater has run   *)
(* on each object, and the outcome of the last call.                       *)
(***************************************************************************)
EXTENDS Integers, Sequences, FiniteSets, TLC

\* ---------------------------------------------------------------- bounds
NumNodes == 2         \* len(graph.nodes)
MaxLabel == 1         \* part labels offered by inputs are 0..MaxLabel
MaxPartitions == 3    \* Partition objects constructed in one run
MaxFlips == 2         \* entries of one flips dict
NumReaders == 2       \* threads inside __getitem__ on one object

\* ---------------------------------------------------------------- inputs
Nodes == 0..(NumNodes - 1)
Labels == 0..MaxLabel
\* The path graph 0 - 1 - ... - (NumNodes-1), nodes already 0-based.
Edges == {<<i, i + 1>> : i \in 0..(NumNodes - 2)}
\* Python's None, as the value dict.get gives for a node without the attribute.
None == 0 - 1
\* Keys a caller may put in a flips dict: every node, the negative index -1
\* that Python accepts for a list, and NumNodes, one past the last node.
FlipKeys == (0 - 1)..NumNodes
FlipItems == FlipKeys \X Labels
\* A flips dict in insertion order: pairs <<node, label>> with distinct keys.
\* The dicts offered are those filled in ascending key order.
FlipDicts ==
    UNION {{f \in [1..k -> FlipItems] :
               \A i, j \in 1..k : i < j => f[i][1] < f[j][1]} : k \in 0..MaxFlips}
\* The assignment argument of the constructor: absent (the empty set), or an
\* attribute that some of the graph's nodes carry.
NodeAttributes == UNION {[S -> Labels] : S \in SUBSET Nodes}
AssignmentArgs == {{}} \cup {{a} : a \in NodeAttributes}
\* Updater registries in insertion order, and the keys callers ask for.
\* "sum" is an updater that reads two other keys through the partition, so it
\* is offered before and after the keys it reads.
UpdaterKeys == {"len", "mec", "sum"}
Registries == {<<>>, <<"sum", "len", "mec">>, <<"len", "mec", "sum">>}
QueryKeys == UpdaterKeys \cup {"population"}

VARIABLES heap, updaters, calls, last, readers
vars == <<heap, updaters, calls, last, readers>>

Pids == 1..Len(heap)

\* ---------------------------------------------------------------- helpers
\* Python list indexing: i in -n..-1 addresses position n + i.
InRange(i) == (0 - NumNodes) <= i /\ i < NumNodes
ListIndex(i) == IF i >= 0 THEN i ELSE NumNodes + i

Keys(seq) == {seq[i] : i \in 1..Len(seq)}

\* A comparison that names the same endpoint twice.
crosses_parts_one_endpoint(assignment, edge) == assignment[edge[1]] # assignment[edge[1]]

crosses_parts(assignment, edge) == assignment[edge[1]] # assignment[edge[2]]

\* rundmcmc.proposals.max_edge_cuts: a statistic of the edge classification.
max_edge_cuts(assignment) ==
    Cardinality({e \in Edges : crosses_parts(assignment, e)})

len(obj) == Cardinality(DOMAIN obj.parts)

\* The updater functions of the registry that read only the attributes of the
\* partition they are given: its part count, its max_edge_cuts.
UpdaterValue(key, obj) ==
    IF key = "len" THEN len(obj) ELSE obj.max_edge_cuts

\* The keys an updater reads through partition[key] while it runs.
Reads(key) == IF key = "sum" THEN <<"len", "mec">> ELSE <<>>

NoCalls == [k \in UpdaterKeys |-> 0]

\* self.updaters[key](self) on the object of st, inside a call: st carries the
\* object, the runs counted so far and the value of the last evaluation.  An
\* updater with Reads goes through __getitem__ for each key it reads (a hit
\* returns the cached value, a miss runs that updater and caches its value)
\* and returns the sum of what it got.
RECURSIVE Invoke(_, _)
Invoke(key, st) ==
    LET counted == [st EXCEPT !.calls[key] = @ + 1]
        lookup(k, s) ==
            IF k \in DOMAIN s.obj.cache
            THEN [s EXCEPT !.value = s.obj.cache[k]]
            ELSE LET r == Invoke(k, s)
                 IN  [r EXCEPT !.obj.cache = (k :> r.value) @@ @]
    IN  IF Reads(key) = <<>>
        THEN [counted EXCEPT !.value = UpdaterValue(key, st.obj)]
        ELSE LET first == lookup(Reads(key)[1], counted)
                 second == lookup(Reads(key)[2], first)
             IN  [second EXCEPT !.value = first.value + second.value]


\* ---------------------------------------------------------------- _update
\* Partition._update: start from an empty cache and run every registered
\* updater whose key is not cached yet, in registry order.  n counts the runs.
\* A loop that runs every registered updater, cached already or not.
RECURSIVE update_loop_unchecked(_, _, _, _)
update_loop_unchecked(obj, reg, n, i) ==
    IF i > Len(reg) THEN [obj |-> obj, calls |-> n]
    ELSE LET r == Invoke(reg[i], [obj |-> obj, calls |-> n, value |-> 0])
         IN  update_loop_unchecked([r.obj EXCEPT !.cache = (reg[i] :> r.value) @@ @],
                                   reg, r.calls, i + 1)

RECURSIVE update_loop(_, _, _, _)
update_loop(obj, reg, n, i) ==
    IF i > Len(reg) THEN [obj |-> obj, calls |-> n]
    ELSE IF reg[i] \in DOMAIN obj.cache THEN update_loop(obj, reg, n, i + 1)
    ELSE LET r == Invoke(reg[i], [obj |-> obj, calls |-> n, value |-> 0])
         IN  update_loop([r.obj EXCEPT !.cache = (reg[i] :> r.value) @@ @],
                         reg, r.calls, i + 1)

\* A constructor that leaves the cache empty and runs no updater.
update_lazy(obj, reg) == [obj |-> [obj EXCEPT !.cache = <<>>], calls |-> NoCalls]

update(obj, reg) == update_loop([obj EXCEPT !.cache = <<>>], reg, NoCalls, 1)

\* ---------------------------------------------------------------- _first_time
\* The parts index built by grouping an assignment from scratch.
Group(assignment) ==
    [part \in {assignment[n] : n \in Nodes} |->
        {n \in Nodes : assignment[n] = part}]

\* Partition._first_time: a is the assignment argument, reg the registry.
first_time(a, reg) ==
    LET assignment ==
            IF a = {} THEN [n \in Nodes |-> 0]
            ELSE LET attr == CHOOSE x \in a : TRUE
                 IN  [n \in Nodes |-> IF n \in DOMAIN attr THEN attr[n] ELSE None]
    IN  [parent |-> {}, flips |-> {}, flows |-> {}, edge_flows |-> {},
         assignment |-> assignment,
         max_edge_cuts |-> max_edge_cuts(assignment),
         parts |-> Group(assignment), parts_default |-> TRUE,
         parts_ids |-> [part \in DOMAIN Group(assignment) |-> <<1, part>>],
         cache |-> <<>>]

\* ---------------------------------------------------------------- _from_parent
\* self.assignment[key] = val for every item of flips, in order.
RECURSIVE ApplyFlips(_, _, _)
ApplyFlips(assignment, f, i) ==
    IF i > Len(f) THEN assignment
    ELSE ApplyFlips([assignment EXCEPT ![ListIndex(f[i][1])] = f[i][2]], f, i + 1)

\* rundmcmc.updaters.flows_from_changes: per affected part, the nodes entering
\* and leaving it; a flip to the label the node already has contributes nothing.
flows_from_changes(old, f) ==
    LET source(i) == old[ListIndex(f[i][1])]
        moved == {i \in 1..Len(f) : source(i) # f[i][2]}
        touched == {f[i][2] : i \in moved} \cup {source(i) : i \in moved}
    IN  [part \in touched |->
            [in |-> {f[i][1] : i \in {j \in moved : f[j][2] = part}},
             out |-> {f[i][1] : i \in {j \in moved : source(j) = part}}]]

\* rundmcmc.updaters.compute_edge_flows: the edges with a flipped endpoint whose
\* cut status differs between the parent's assignment and the child's.
compute_edge_flows(old, new, f) ==
    LET flipped == {f[i][1] : i \in 1..Len(f)}
        near == {e \in Edges : e[1] \in flipped \/ e[2] \in flipped}
    IN  [newly_cut |-> {e \in near : crosses_parts(new, e) /\ ~crosses_parts(old, e)},
         newly_uncut |-> {e \in near : ~crosses_parts(new, e) /\ crosses_parts(old, e)}]

\* The parts of the flow record that are no key of the parent's parts index.
MissingParts(parent, flows) == DOMAIN flows \ DOMAIN parent.parts

\* An index update that adds the entering nodes and forgets to take the
\* leaving ones out.
update_parts_keeping_leavers(parent, flows) ==
    LET start == [part \in DOMAIN parent.parts \cup DOMAIN flows |->
                     IF part \in DOMAIN parent.parts THEN parent.parts[part] ELSE {}]
        moved == [part \in DOMAIN start |->
                     IF part \in DOMAIN flows
                     THEN start[part] \cup flows[part].in
                     ELSE start[part]]
    IN  [part \in {q \in DOMAIN moved : Cardinality(moved[q]) > 0} |-> moved[part]]

\* Partition._update_parts: the child's index from the parent's index and the flows.
update_parts(parent, flows) ==
    LET start == [part \in DOMAIN parent.parts \cup DOMAIN flows |->
                     IF part \in DOMAIN parent.parts THEN parent.parts[part] ELSE {}]
        moved == [part \in DOMAIN start |->
                     IF part \in DOMAIN flows
                     THEN (start[part] \cup flows[part].in) \ flows[part].out
                     ELSE start[part]]
    IN  [part \in {q \in DOMAIN moved : Cardinality(moved[q]) > 0} |-> moved[part]]

\* A child that copies every member set of the parent's index (a deep copy)
\* instead of sharing the untouched ones.
update_parts_ids_deep_copy(parent, flows, self) ==
    [part \in DOMAIN update_parts(parent, flows) |-> <<self, part>>]

\* The identity of the set objects in the index _update_parts builds for object
\* self: defaultdict(set, self.parent.parts) copies the references of the
\* parent's index, the assignment on line 96 binds each touched part to the new
\* set that | and - return, and the comprehension on line 99 keeps references.
\* A set object is named by the object that created it and its part.
update_parts_ids(parent, flows, self) ==
    [part \in DOMAIN update_parts(parent, flows) |->
        IF part \in DOMAIN flows THEN <<self, part>> ELSE parent.parts_ids[part]]

\* A child that copies the parent's assignment and applies no flip to it.
from_parent_unflipped(p, f) ==
    LET parent == heap[p]
        assignment == parent.assignment
        flows == flows_from_changes(parent.assignment, f)
    IN  [parent |-> {p}, flips |-> {f}, flows |-> {flows},
         edge_flows |-> {compute_edge_flows(parent.assignment, assignment, f)},
         assignment |-> assignment,
         max_edge_cuts |-> parent.max_edge_cuts,
         parts |-> update_parts(parent, flows), parts_default |-> FALSE,
         parts_ids |-> update_parts_ids(parent, flows, Len(heap) + 1),
         cache |-> <<>>]

\* Partition._from_parent, for flips that raise nothing.
from_parent(p, f) ==
    LET parent == heap[p]
        assignment == ApplyFlips(parent.assignment, f, 1)
        flows == flows_from_changes(parent.assignment, f)
    IN  [parent |-> {p}, flips |-> {f}, flows |-> {flows},
         edge_flows |-> {compute_edge_flows(parent.assignment, assignment, f)},
         assignment |-> assignment,
         max_edge_cuts |-> parent.max_edge_cuts,
         parts |-> update_parts(parent, flows), parts_default |-> FALSE,
         parts_ids |-> update_parts_ids(parent, flows, Len(heap) + 1),
         cache |-> <<>>]

\* What reading self.parent.parts[part] does to the parent: a defaultdict gains
\* an empty set for every part it did not have, a plain dict raises KeyError.
ParentAfter(parent, flows) ==
    [parent EXCEPT
        !.parts =
            [part \in DOMAIN parent.parts \cup MissingParts(parent, flows) |->
                IF part \in DOMAIN parent.parts THEN parent.parts[part] ELSE {}],
        !.parts_ids =
            [part \in DOMAIN parent.parts \cup MissingParts(parent, flows) |->
                IF part \in DOMAIN parent.parts THEN parent.parts_ids[part]
                ELSE <<CHOOSE q \in Pids : heap[q] = parent, part>>]]

\* ---------------------------------------------------------------- __init__
Result(op, self, f, key, outcome, ret) ==
    [op |-> op, self |-> self, flips |-> f, key |-> key,
     outcome |-> outcome, ret |-> ret]

\* Partition.__init__ after _from_parent or _first_time: _update, then the
\* max_edge_cuts statistic of the finished object.
Finish(obj, reg) ==
    LET u == update(obj, reg)
    IN  [obj |-> [u.obj EXCEPT !.max_edge_cuts = max_edge_cuts(obj.assignment)],
         calls |-> u.calls]

Init ==
    /\ heap = <<>>
    /\ updaters = <<>>
    /\ calls = <<>>
    /\ last = Result("none", 0, <<>>, "", "ok", 0)
    /\ readers = <<>>

\* Partition(graph, assignment, updaters): the root of a chain.
NewPartition(a, reg) ==
    /\ heap = <<>>
    /\ LET done == Finish(first_time(a, reg), reg)
       IN  /\ heap' = <<done.obj>>
           /\ calls' = <<done.calls>>
    /\ updaters' = reg
    /\ last' = Result("init", 1, <<>>, "", "ok", 1)

\* Partition.merge(flips) on object p: Partition(parent=p, flips=flips).
merge(p, f) ==
    /\ Len(heap) < MaxPartitions
    /\ LET parent == heap[p]
           flows == flows_from_changes(parent.assignment, f)
       IN  IF len(parent) = 0
           THEN \* "if parent" is false: _first_time(None, None, None)
                /\ last' = Result("merge", p, f, "", "AttributeError", 0)
                /\ UNCHANGED <<heap, updaters, calls>>
           ELSE IF \E i \in 1..Len(f) : ~InRange(f[i][1])
           THEN \* self.assignment[key] = val
                /\ last' = Result("merge", p, f, "", "IndexError", 0)
                /\ UNCHANGED <<heap, updaters, calls>>
           ELSE IF MissingParts(parent, flows) # {} /\ ~parent.parts_default
           THEN \* self.parent.parts[part]
                /\ last' = Result("merge", p, f, "", "KeyError", 0)
                /\ UNCHANGED <<heap, updaters, calls>>
           ELSE LET done == Finish(from_parent(p, f), updaters)
                IN  /\ heap' = Append([heap EXCEPT ![p] = ParentAfter(parent, flows)],
                                      done.obj)
                    /\ calls' = Append(calls, done.calls)
                    /\ last' = Result("merge", p, f, "", "ok", Len(heap) + 1)
                    /\ UNCHANGED updaters

\* A lookup that runs the updater on every call, cached or not.
getitem_recompute(p, key) ==
    IF key \notin Keys(updaters)
    THEN /\ last' = Result("get", p, <<>>, key, "KeyError", 0)
         /\ UNCHANGED <<heap, updaters, calls>>
    ELSE LET r == Invoke(key, [obj |-> heap[p], calls |-> calls[p], value |-> 0])
         IN  /\ heap' = [heap EXCEPT ![p] = [r.obj EXCEPT !.cache = (key :> r.value) @@ @]]
             /\ calls' = [calls EXCEPT ![p] = r.calls]
             /\ last' = Result("get", p, <<>>, key, "ok", r.value)
             /\ UNCHANGED updaters

\* A lookup that answers an unregistered key with a default it then caches.
getitem_default(p, key) ==
    IF key \in DOMAIN heap[p].cache
    THEN /\ last' = Result("get", p, <<>>, key, "ok", heap[p].cache[key])
         /\ UNCHANGED <<heap, updaters, calls>>
    ELSE IF key \notin Keys(updaters)
    THEN /\ heap' = [heap EXCEPT ![p].cache = (key :> 0) @@ @]
         /\ last' = Result("get", p, <<>>, key, "ok", 0)
         /\ UNCHANGED <<updaters, calls>>
    ELSE LET r == Invoke(key, [obj |-> heap[p], calls |-> calls[p], value |-> 0])
         IN  /\ heap' = [heap EXCEPT ![p] = [r.obj EXCEPT !.cache = (key :> r.value) @@ @]]
             /\ calls' = [calls EXCEPT ![p] = r.calls]
             /\ last' = Result("get", p, <<>>, key, "ok", r.value)
             /\ UNCHANGED updaters

\* A lookup that rebinds the cache to a dict holding only the key asked for.
getitem_evicting(p, key) ==
    IF key \in DOMAIN heap[p].cache
    THEN /\ heap' = [heap EXCEPT ![p].cache = (key :> heap[p].cache[key])]
         /\ last' = Result("get", p, <<>>, key, "ok", heap[p].cache[key])
         /\ UNCHANGED <<updaters, calls>>
    ELSE /\ last' = Result("get", p, <<>>, key, "KeyError", 0)
         /\ UNCHANGED <<heap, updaters, calls>>

\* Partition.__getitem__(key) on object p.
getitem(p, key) ==
    IF key \in DOMAIN heap[p].cache
    THEN /\ last' = Result("get", p, <<>>, key, "ok", heap[p].cache[key])
         /\ UNCHANGED <<heap, updaters, calls>>
    ELSE IF key \notin Keys(updaters)
    THEN \* self.updaters[key]
         /\ last' = Result("get", p, <<>>, key, "KeyError", 0)
         /\ UNCHANGED <<heap, updaters, calls>>
    ELSE LET r == Invoke(key, [obj |-> heap[p], calls |-> calls[p], value |-> 0])
         IN  /\ heap' = [heap EXCEPT ![p] = [r.obj EXCEPT !.cache = (key :> r.value) @@ @]]
             /\ calls' = [calls EXCEPT ![p] = r.calls]
             /\ last' = Result("get", p, <<>>, key, "ok", r.value)
             /\ UNCHANGED updaters

\* The names bound at module level, besides the builtins: the imports and the
\* class.
ModuleNames ==
    {"collections", "networkx", "max_edge_cuts", "flows_from_changes",
     "compute_edge_flows", "Partition"}

\* The OLDID attribute convert_node_labels_to_integers records for node n: the
\* identifier the node had in the caller's graph.
OLDID == [n \in Nodes |-> 10 + n]

\* Partition.assignment_by_nodeid on obj: the name graph on line 133 is neither
\* a local of the method nor a module-level name.
assignment_by_nodeid(obj) ==
    IF "graph" \notin ModuleNames
    THEN [outcome |-> "NameError", ret |-> <<>>]
    ELSE [outcome |-> "ok",
          ret |-> [id \in {OLDID[n] : n \in Nodes} |->
                      obj.assignment[CHOOSE n \in Nodes : OLDID[n] = id]]]

\* A call of assignment_by_nodeid on object p.
by_nodeid(p) ==
    /\ last' = Result("assignment_by_nodeid", p, <<>>, "",
                      assignment_by_nodeid(heap[p]).outcome, 0)
    /\ UNCHANGED <<heap, updaters, calls>>

\* The calls of a single-threaded caller: no thread is inside __getitem__.
Construct ==
    /\ \E a \in AssignmentArgs, reg \in Registries : NewPartition(a, reg)
    /\ UNCHANGED readers
Merge ==
    /\ \E p \in Pids, f \in FlipDicts : merge(p, f)
    /\ UNCHANGED readers
Get ==
    /\ \E p \in Pids, key \in QueryKeys : getitem(p, key)
    /\ UNCHANGED readers

ByNodeid ==
    /\ \E p \in Pids : by_nodeid(p)
    /\ UNCHANGED readers

Next == Construct \/ Merge \/ Get \/ ByNodeid

Spec == Init /\ [][Next]_vars

\* ---------------------------------------------------------------- readers
\* Threads that call __getitem__ on one object whose cache is not filled yet.
\* _update empties the cache and fills it key by key, handing the object to
\* each updater as it goes: the caches a thread can meet are the ones _update
\* passes through.  A reader asks for a key whose updater reads no other key.
ReaderKeys == {k \in QueryKeys : Reads(k) = <<>>}
CachedSoFar(reg) ==
    {K \in {{}, {"len"}, {"len", "mec"}, UpdaterKeys} : K \subseteq Keys(reg)}

Idle == [pc |-> "idle", key |-> "", value |-> 0, outcome |-> "", ret |-> 0]

InitReaders ==
    \E a \in AssignmentArgs, reg \in Registries :
        LET done == Finish(first_time(a, reg), reg)
        IN  \E K \in CachedSoFar(reg) :
                /\ heap = <<[done.obj EXCEPT
                                !.cache = [k \in K |-> done.obj.cache[k]]]>>
                /\ calls = <<[k \in UpdaterKeys |-> IF k \in K THEN 1 ELSE 0]>>
                /\ updaters = reg
                /\ last = Result("init", 1, <<>>, "", "ok", 1)
                /\ readers = [r \in 1..NumReaders |-> Idle]

\* partition[key]: the thread enters __getitem__.
reader_call(r, key) ==
    /\ readers[r].pc = "idle"
    /\ readers' = [readers EXCEPT ![r].pc = "check", ![r].key = key]
    /\ UNCHANGED <<heap, updaters, calls, last>>

\* if key not in self._cache
reader_check(r) ==
    /\ readers[r].pc = "check"
    /\ readers' = [readers EXCEPT ![r].pc =
                      IF readers[r].key \in DOMAIN heap[1].cache
                      THEN "return" ELSE "compute"]
    /\ UNCHANGED <<heap, updaters, calls, last>>

\* self.updaters[key](self): the right-hand side of the assignment.
reader_compute(r) ==
    /\ readers[r].pc = "compute"
    /\ IF readers[r].key \notin Keys(updaters)
       THEN /\ readers' = [readers EXCEPT ![r].pc = "done",
                                          ![r].outcome = "KeyError"]
            /\ UNCHANGED calls
       ELSE /\ readers' = [readers EXCEPT ![r].pc = "store",
                              ![r].value = UpdaterValue(readers[r].key, heap[1])]
            /\ calls' = [calls EXCEPT ![1][readers[r].key] = @ + 1]
    /\ UNCHANGED <<heap, updaters, last>>

\* A store that rebinds the cache to a dict holding only the new entry.
reader_store_rebinding(r) ==
    /\ readers[r].pc = "store"
    /\ heap' = [heap EXCEPT ![1].cache = (readers[r].key :> readers[r].value)]
    /\ readers' = [readers EXCEPT ![r].pc = "return"]
    /\ UNCHANGED <<updaters, calls, last>>

\* self._cache[key] = <the value computed>
reader_store(r) ==
    /\ readers[r].pc = "store"
    /\ heap' = [heap EXCEPT ![1].cache =
                   (readers[r].key :> readers[r].value) @@ @]
    /\ readers' = [readers EXCEPT ![r].pc = "return"]
    /\ UNCHANGED <<updaters, calls, last>>

\* return self._cache[key]
reader_return(r) ==
    /\ readers[r].pc = "return"
    /\ readers' = [readers EXCEPT ![r].pc = "done", ![r].outcome = "ok",
                                  ![r].ret = heap[1].cache[readers[r].key]]
    /\ UNCHANGED <<heap, updaters, calls, last>>

ReaderCall == \E r \in DOMAIN readers, key \in ReaderKeys : reader_call(r, key)
ReaderCheck == \E r \in DOMAIN readers : reader_check(r)
ReaderCompute == \E r \in DOMAIN readers : reader_compute(r)
ReaderStore == \E r \in DOMAIN readers : reader_store(r)
ReaderReturn == \E r \in DOMAIN readers : reader_return(r)

NextReaders ==
    ReaderCall \/ ReaderCheck \/ ReaderCompute \/ ReaderStore \/ ReaderReturn

SpecReaders == InitReaders /\ [][NextReaders]_vars


\* ---------------------------------------------------------------- properties
\* A flips dict over the node ids of the graph.
ValidFlips(f) == \A i \in 1..Len(f) : f[i][1] \in Nodes

\* Every merge that has built an object so far was given flips over node ids.
InSpecHistory == \A q \in Pids : \A f \in heap[q].flips : ValidFlips(f)

\* Object p and all its ancestors were built from flips over node ids.
RECURSIVE ChainValid(_)
ChainValid(p) ==
    /\ \A f \in heap[p].flips : ValidFlips(f)
    /\ \A q \in heap[p].parent : ChainValid(q)

\* The member sets of a parts index are non-empty, pairwise disjoint and cover
\* the node set.
PartsArePartition(parts) ==
    /\ \A part \in DOMAIN parts : parts[part] # {}
    /\ \A a, b \in DOMAIN parts : a # b => parts[a] \cap parts[b] = {}
    /\ UNION {parts[part] : part \in DOMAIN parts} = Nodes

\* C1: every Partition object, root or derived, at every moment after its
\* construction has a parts index whose member sets are non-empty, pairwise
\* disjoint and cover the node set.  Stated for the runs in which every merge
\* was given flips over node ids, where the model refutes it: merge on a root
\* with a new label leaves an empty set in the root's index.
C1_PartitionInvariant ==
    InSpecHistory => \A p \in Pids : PartsArePartition(heap[p].parts)

\* C2: the parts index merge builds incrementally, (parent members UNION
\* entering) MINUS leaving per touched part with empty parts dropped, equals the
\* index got by grouping the child's assignment from scratch, for every object
\* merge has returned along a chain of flips over node ids.
C2_FlowCorrectness ==
    \A p \in Pids :
        heap[p].parent # {} /\ ChainValid(p)
            => heap[p].parts = Group(heap[p].assignment)

\* C2 witness: a grandchild of the root, built by two merges that each moved
\* nodes, the second one entering a node in one part and emptying another,
\* which is dropped from the index.
C2_Witness ==
    \E p \in Pids :
        /\ ChainValid(p)
        /\ \E q \in heap[p].parent : \E fq \in heap[q].flows :
             heap[q].parent # {} /\ DOMAIN fq # {}
        /\ \E fl \in heap[p].flows :
             /\ \E part \in DOMAIN fl : fl[part].in # {}
             /\ DOMAIN fl \ DOMAIN heap[p].parts # {}

\* C3: merge never changes the object it is called on, whether it returns or
\* raises: assignment, parts index (keys and member sets), flips, flows and
\* cache of p are as before.  Stated for flips over node ids.
C3_MergeLeavesParentUnchanged ==
    [][(last'.op = "merge" /\ ValidFlips(last'.flips))
          => heap'[last'.self] = heap[last'.self]]_vars

\* The labels that flips f sends a node to and that are no key of p's index.
NewLabels(p, f) == {f[i][2] : i \in 1..Len(f)} \ DOMAIN heap[p].parts

\* C4: on any object, root or derived, a merge whose flips (over node ids) send
\* nodes to a label that is no key of the object's parts index returns a child
\* whose index maps that label to exactly the nodes flipped into it.
C4_NewLabelMergeSucceeds ==
    [][(/\ last'.op = "merge"
        /\ ValidFlips(last'.flips)
        /\ NewLabels(last'.self, last'.flips) # {})
          => /\ last'.outcome = "ok"
             /\ Len(heap') = Len(heap) + 1
             /\ \A part \in NewLabels(last'.self, last'.flips) :
                  /\ part \in DOMAIN heap'[last'.ret].parts
                  /\ heap'[last'.ret].parts[part] =
                       {last'.flips[i][1] :
                           i \in {j \in 1..Len(last'.flips) : last'.flips[j][2] = part}}]_vars

\* C5: a merge whose flips hold a key that is no node id (below 0, or at or
\* above the node count) raises, builds no object and leaves every object as
\* it was.
C5_InvalidFlipRejected ==
    [][(last'.op = "merge" /\ ~ValidFlips(last'.flips))
          => /\ last'.outcome # "ok"
             /\ heap' = heap]_vars


\* The part of flip validation the list assignment does provide: a key beyond
\* either end of the list raises IndexError and changes nothing.
OutOfRangeFlipRaises ==
    [][(last'.op = "merge" /\ \E i \in 1..Len(last'.flips) : ~InRange(last'.flips[i][1]))
          => last'.outcome = "IndexError" /\ heap' = heap]_vars

\* C6, as the spec has it: right after the constructor (root or merge) the new
\* object's cache is empty and no updater has run on it.
C6_FullyLazy ==
    (last.op \in {"init", "merge"} /\ last.outcome = "ok")
        => heap[last.ret].cache = <<>> /\ calls[last.ret] = NoCalls

\* C6, amended: the constructor is eager.  Every object, from the moment it is
\* built, caches a value for exactly the keys of the registry, each registered
\* updater has run on it exactly once and no other ever has: a later get of a
\* registered key runs nothing.
C6_EagerUpdate ==
    \A p \in Pids :
        /\ DOMAIN heap[p].cache = Keys(updaters)
        /\ \A k \in UpdaterKeys :
             calls[p][k] = IF k \in Keys(updaters) THEN 1 ELSE 0

\* C6 witness: merge has just returned a child under a registry of updaters.
C6_Witness ==
    /\ last.op = "merge" /\ last.outcome = "ok"
    /\ Len(updaters) > 0
    /\ heap[last.ret].parent # {}

\* C7: a value once cached for (p, k) stays what it is through every later
\* call; a get that returns leaves the value it returned in the cache; and a
\* get of a cached key returns the cached value and runs no updater.  So two
\* successive gets of k on p, whatever happens in between, return the same.
C7_CacheIdempotence ==
    [][/\ \A p \in Pids : \A k \in DOMAIN heap[p].cache :
            k \in DOMAIN heap'[p].cache /\ heap'[p].cache[k] = heap[p].cache[k]
       /\ (last'.op = "get" /\ last'.outcome = "ok")
            => /\ last'.key \in DOMAIN heap'[last'.self].cache
               /\ heap'[last'.self].cache[last'.key] = last'.ret
       /\ (last'.op = "get" /\ last'.key \in DOMAIN heap[last'.self].cache)
            => /\ last'.outcome = "ok"
               /\ last'.ret = heap[last'.self].cache[last'.key]
               /\ calls' = calls]_vars

\* C7 witness: a get on the root has returned the cached part count although
\* a merge in between has changed what the updater would compute now.
C7_Witness ==
    /\ last.op = "get" /\ last.outcome = "ok" /\ last.key = "len"
    /\ last.ret = heap[last.self].cache["len"]
    /\ last.ret # UpdaterValue("len", heap[last.self])
    /\ calls[last.self]["len"] = 1

\* C8: a get of a key that is neither cached nor registered raises (Python's
\* KeyError, from the registry lookup) and changes nothing: no cache entry is
\* made and no updater runs.
C8_UnknownKeyRaises ==
    [][(/\ last'.op = "get"
        /\ last'.key \notin DOMAIN heap[last'.self].cache
        /\ last'.key \notin Keys(updaters))
          => /\ last'.outcome = "KeyError"
             /\ heap' = heap /\ calls' = calls /\ updaters' = updaters]_vars

\* C8 witness: "population" has been asked of an object and the lookup raised,
\* under an empty registry.
C8_Witness ==
    /\ last.op = "get" /\ last.key = "population" /\ last.outcome = "KeyError"
    /\ updaters = <<>>
    /\ "population" \notin DOMAIN heap[last.self].cache

\* C9: no constructed root gives a node the missing label: an assignment that
\* leaves a node without a label is refused.
C9_IncompleteAssignmentRejected ==
    \A p \in Pids : \A n \in Nodes : heap[p].assignment[n] # None

\* Flips that give every node they name the label it already has.
NoOpFlips(f, assignment) ==
    \A i \in 1..Len(f) : f[i][1] \in Nodes /\ assignment[f[i][1]] = f[i][2]

\* C10: a merge with flips that give every node its current label (the empty
\* dict included) returns a child whose assignment, parts index and
\* max_edge_cuts equal those of the object it was called on.  Stated for the
\* runs in which every merge was given flips over node ids.
C10_NoOpFlipStability ==
    (InSpecHistory /\ last.op = "merge" /\ NoOpFlips(last.flips, heap[last.self].assignment))
        => /\ last.outcome = "ok"
           /\ heap[last.ret].assignment = heap[last.self].assignment
           /\ heap[last.ret].parts = heap[last.self].parts
           /\ heap[last.ret].max_edge_cuts = heap[last.self].max_edge_cuts


\* C11: in every object merge has built, a part of its index that the flow
\* record does not touch is bound to the very set object the parent's index
\* holds for it, and a touched part is bound to a set object that no older
\* Partition holds; set objects that are shared hold the same members in every
\* index that holds them (no shared set is ever modified).
C11_StructuralSharing ==
    /\ \A c \in Pids : \A q \in heap[c].parent : \A fl \in heap[c].flows :
         \A part \in DOMAIN heap[c].parts :
            IF part \in DOMAIN fl
            THEN \A o \in 1..(c - 1) : \A b \in DOMAIN heap[o].parts_ids :
                    heap[o].parts_ids[b] # heap[c].parts_ids[part]
            ELSE /\ part \in DOMAIN heap[q].parts_ids
                 /\ heap[c].parts_ids[part] = heap[q].parts_ids[part]
    /\ \A p, q \in Pids : \A a \in DOMAIN heap[p].parts : \A b \in DOMAIN heap[q].parts :
         heap[p].parts_ids[a] = heap[q].parts_ids[b]
            => heap[p].parts[a] = heap[q].parts[b]

\* C11 witness: a grandchild whose index holds one part it shares with the root
\* (untouched by two merges) and one part its own merge rebuilt.
C11_Witness ==
    \E c \in Pids : \E q \in heap[c].parent : \E fl \in heap[c].flows :
        /\ heap[q].parent # {}
        /\ \E part \in DOMAIN heap[c].parts \ DOMAIN fl :
             heap[c].parts_ids[part] = heap[1].parts_ids[part]
        /\ \E part \in DOMAIN heap[c].parts : part \in DOMAIN fl


\* The labels that occur in an assignment.
DistinctLabels(assignment) == {assignment[n] : n \in Nodes}

\* C12: at every moment after its construction, also after children have been
\* derived from it, the part count len(p) of every Partition is the number of
\* distinct labels in its assignment.  Stated for the runs in which every merge
\* was given flips over node ids.
C12_PartCount ==
    InSpecHistory
        => \A p \in Pids :
              len(heap[p]) = Cardinality(DistinctLabels(heap[p].assignment))

\* The label flips f give node n, or the one the prior assignment gives it.
Overlay(assignment, f) ==
    [n \in Nodes |->
        IF \E i \in 1..Len(f) : f[i][1] = n
        THEN f[CHOOSE i \in 1..Len(f) : f[i][1] = n][2]
        ELSE assignment[n]]

\* C13: crosses_parts(p, (u, v)) is true iff u and v carry different labels in
\* p's own assignment; after a merge with flips over node ids the child's
\* answers are those of the parent's labels overlaid with the flips, and the
\* answers of the object merge was called on are what they were before.
C13_CrossesParts ==
    [][/\ \A p \in 1..Len(heap') : \A u, v \in Nodes :
            crosses_parts(heap'[p].assignment, <<u, v>>)
                <=> heap'[p].assignment[u] # heap'[p].assignment[v]
       /\ (last'.op = "merge" /\ last'.outcome = "ok" /\ ValidFlips(last'.flips))
            => \A u, v \in Nodes :
                 /\ crosses_parts(heap'[last'.ret].assignment, <<u, v>>)
                      <=> Overlay(heap[last'.self].assignment, last'.flips)[u]
                            # Overlay(heap[last'.self].assignment, last'.flips)[v]
                 /\ crosses_parts(heap'[last'.self].assignment, <<u, v>>)
                      <=> crosses_parts(heap[last'.self].assignment, <<u, v>>)]_vars

\* C13 witness: merge has returned a child in which the edge (0, 1) crosses
\* parts while it does not in the object merge was called on.
C13_Witness ==
    /\ last.op = "merge" /\ last.outcome = "ok" /\ ValidFlips(last.flips)
    /\ crosses_parts(heap[last.ret].assignment, <<0, 1>>)
    /\ ~crosses_parts(heap[last.self].assignment, <<0, 1>>)


\* C14: on every Partition, root or derived, assignment_by_nodeid returns
\* without error a mapping whose keys are the original node identifiers and
\* which gives each the label of the node's dense id in the assignment.
C14_AssignmentByNodeid ==
    \A p \in Pids :
        LET r == assignment_by_nodeid(heap[p])
        IN  /\ r.outcome = "ok"
            /\ DOMAIN r.ret = {OLDID[n] : n \in Nodes}
            /\ \A n \in Nodes : r.ret[OLDID[n]] = heap[p].assignment[n]


\* C15: whenever max_edge_cuts of a Partition is read, by a caller after the
\* constructor or by an updater run on the Partition, the value is the
\* statistic of the Partition's own assignment.  "mec" is the updater that
\* reads the attribute; its cached value is what it read.  Stated for the runs
\* in which every merge was given flips over node ids.
C15_MaxEdgeCutsNotInherited ==
    InSpecHistory
        => \A p \in Pids :
              /\ heap[p].max_edge_cuts = max_edge_cuts(heap[p].assignment)
              /\ "mec" \in DOMAIN heap[p].cache
                    => heap[p].cache["mec"] = max_edge_cuts(heap[p].assignment)

\* C16: a get changes nothing but the cache of the object it is called on,
\* where it removes and alters nothing and adds at most the key asked for:
\* every other object, every assignment and parts index and the registry are
\* as before; and a merge leaves the cache of every existing object as it was.
C16_GetIsLocal ==
    [][/\ last'.op = "get"
            => /\ updaters' = updaters
               /\ Len(heap') = Len(heap)
               /\ \A q \in Pids : q # last'.self => heap'[q] = heap[q]
               /\ [heap'[last'.self] EXCEPT !.cache = heap[last'.self].cache]
                     = heap[last'.self]
               /\ DOMAIN heap'[last'.self].cache
                     \subseteq DOMAIN heap[last'.self].cache \cup {last'.key}
               /\ \A k \in DOMAIN heap[last'.self].cache :
                     /\ k \in DOMAIN heap'[last'.self].cache
                     /\ heap'[last'.self].cache[k] = heap[last'.self].cache[k]
       /\ last'.op = "merge"
            => /\ updaters' = updaters
               /\ \A q \in Pids : heap'[q].cache = heap[q].cache]_vars

\* C16 witness: a get has returned on an object that has a parent and a child,
\* all three with filled caches.
C16_Witness ==
    /\ last.op = "get" /\ last.outcome = "ok"
    /\ heap[last.self].parent # {}
    /\ \E c \in Pids : heap[c].parent = {last.self}
    /\ \A q \in Pids : DOMAIN heap[q].cache = UpdaterKeys


\* C17: readers inside get on one Partition, in any interleaving of their
\* check, compute and store steps: no step removes or alters a cache entry or
\* changes anything of the object but its cache, and a reader that has
\* returned from a registered key returned the value of that key's updater on
\* the object, which is what the cache holds for the key.
C17_FillOnceUnderReaders ==
    [][/\ \A k \in DOMAIN heap[1].cache :
             /\ k \in DOMAIN heap'[1].cache
             /\ heap'[1].cache[k] = heap[1].cache[k]
       /\ [heap'[1] EXCEPT !.cache = heap[1].cache] = heap[1]
       /\ \A r \in DOMAIN readers' :
             (readers'[r].pc = "done" /\ readers'[r].key \in Keys(updaters))
                => /\ readers'[r].outcome = "ok"
                   /\ readers'[r].ret = UpdaterValue(readers'[r].key, heap'[1])
                   /\ readers'[r].key \in DOMAIN heap'[1].cache
                   /\ heap'[1].cache[readers'[r].key] = readers'[r].ret]_vars

\* C17 witness: all readers asked for the same key, missing while another key
\* was cached; each ran the updater before any had stored, and all returned.
C17_Witness ==
    /\ Len(readers) = NumReaders
    /\ \A r \in DOMAIN readers :
          /\ readers[r].pc = "done" /\ readers[r].outcome = "ok"
          /\ readers[r].key = "mec"
    /\ calls[1]["mec"] = NumReaders
    /\ DOMAIN heap[1].cache = {"len", "mec"}


\* The label the chain of h that ends in p gives node n: the label of the most
\* recent flips dict that holds n, or the root's label when none does.
RECURSIVE Resolve(_, _, _)
Resolve(h, p, n) ==
    IF h[p].parent = {} THEN h[p].assignment[n]
    ELSE LET f == CHOOSE x \in h[p].flips : TRUE
         IN  IF \E i \in 1..Len(f) : f[i][1] = n
             THEN f[CHOOSE i \in 1..Len(f) : f[i][1] = n][2]
             ELSE Resolve(h, CHOOSE q \in h[p].parent : TRUE, n)

\* Object p of h and all its ancestors were built from flips over node ids.
RECURSIVE ValidChain(_, _)
ValidChain(h, p) ==
    /\ \A f \in h[p].flips : ValidFlips(f)
    /\ \A q \in h[p].parent : ValidChain(h, q)

RECURSIVE RootOf(_, _)
RootOf(h, p) == IF h[p].parent = {} THEN p ELSE RootOf(h, CHOOSE q \in h[p].parent : TRUE)

\* C18: at every moment, an object at the end of a chain of merges with flips
\* over node ids has an assignment over exactly the root's nodes that maps each
\* node to the label of the most recent flips dict of the chain that holds it,
\* or to the root's label; and no step changes the assignment of an object
\* that existed before it.
C18_AssignmentAlongChain ==
    /\ [](\A p \in Pids :
             ValidChain(heap, p)
                => /\ DOMAIN heap[p].assignment = Nodes
                   /\ DOMAIN heap[p].assignment
                         = DOMAIN heap[RootOf(heap, p)].assignment
                   /\ \A n \in Nodes :
                         heap[p].assignment[n] = Resolve(heap, p, n))
    /\ [][\A q \in Pids :
             q <= Len(heap') /\ heap'[q].assignment = heap[q].assignment]_vars

\* C18 witness: a grandchild of the root in which one node has the label the
\* first merge gave it, the second merge having flipped only the other node,
\* and both differ from the root's labels.
C18_Witness ==
    \E p \in Pids :
        /\ ValidChain(heap, p)
        /\ \E q \in heap[p].parent :
              /\ heap[q].parent # {}
              /\ \E n, m \in Nodes :
                    /\ n # m
                    /\ heap[p].assignment[n] = heap[q].assignment[n]
                    /\ heap[q].assignment[n]
                          # heap[RootOf(heap, p)].assignment[n]
                    /\ \A f \in heap[p].flips :
                          /\ \A i \in 1..Len(f) : f[i][1] # n
                          /\ \E i \in 1..Len(f) : f[i][1] = m
                    /\ heap[p].assignment[m] # heap[q].assignment[m]


\* C19: over the construction of an object and every later get on it, each
\* updater has run on it at most once, whatever the registry order and also
\* when an updater reads other keys of the object while it runs; and what an
\* object built by merge caches, and get returns, was computed on that object:
\* every cached key's updater has run on it, its cached part count is its own
\* and its cached sum is the sum of its own cached values.
C19_AtMostOncePerPartition ==
    /\ \A p \in Pids : \A k \in UpdaterKeys : calls[p][k] <= 1
    /\ \A p \in Pids :
          heap[p].parent # {}
             => /\ \A k \in DOMAIN heap[p].cache : calls[p][k] = 1
                /\ "len" \in DOMAIN heap[p].cache
                      => heap[p].cache["len"] = len(heap[p])
                /\ "sum" \in DOMAIN heap[p].cache
                      => heap[p].cache["sum"]
                            = heap[p].cache["len"] + heap[p].cache["mec"]
    /\ (last.op = "get" /\ last.outcome = "ok" /\ heap[last.self].parent # {})
          => /\ last.ret = heap[last.self].cache[last.key]
             /\ last.key = "len" => last.ret = len(heap[last.self])

\* C19 witness: under a registry whose first updater reads the keys that come
\* after it, get on a child has returned a part count that differs from the
\* one cached on its parent.
C19_Witness ==
    /\ Len(updaters) > 0 /\ updaters[1] = "sum"
    /\ last.op = "get" /\ last.outcome = "ok" /\ last.key = "len"
    /\ \E q \in heap[last.self].parent : last.ret # heap[q].cache["len"]

====
